---- MODULE Spec2Model ----
(***************************************************************************)
(* staternd: a repository (one state value plus an EventEmitter "change"   *)
(* channel), store-bound actions (storifyAction) and tracked actions       *)
(* (wrapAction / trackActions), src/src/state.ts.                          *)
(*                                                                         *)
(* JavaScript runs one synchronous segment at a time: every action below   *)
(* is one such segment or, inside an emission, one listener invocation.    *)
(* While an emission is in progress (stack # <<>>) only the emission's own *)
(* steps are enabled.                                                      *)
(***************************************************************************)
EXTENDS Integers, Sequences, FiniteSets, TLC

\* ---------------------------------------------------------------- bounds
MaxVal == 1
MaxRegs == 2
MaxCalls == 2
MaxInv == 2
MaxUnsub == 2
MaxEffects == 3
MaxTrackers == 2

Values == 0..MaxVal
InitialState == 0
Listeners == {"f", "g"}
Names == {"increment", "reset"}
Errors == {"e1", "e2"}

VARIABLES
    state,        \* repository.state
    listeners,    \* the emitter's "change" array: registrations in order
    regs,         \* regs[k]: the listener passed to the k-th onChange call
    unsubCalls,   \* unsubCalls[k]: calls of the function the k-th onChange returned
    stack,        \* emissions in progress, innermost last
    calls,        \* history: one record per setState call
    log,          \* history: one record per listener invocation
    inv,          \* invocations of wrapped / store-bound actions
    promiseState, \* trackActions' promiseState
    delivered,    \* the snapshot the tracker's onChange callback received last
    isSubscribed, \* wrapAction's isSubscribed, per wrapped action
    settled,      \* history: invocations in the order their store-bound call settled
    heap,         \* the snapshot objects trackActions has created, oldest first
    received,     \* history: one record per call of the tracker's onChange callback
    repos,        \* useSelector: the repositories a consumer can be bound to
    hook,         \* useSelector: the hooks of one consumer (ref, effect, reducer)
    effects,      \* useSelector: the number of times the effect has run
    setCalls,     \* useSelector: history, one record per setState call on repos
    trackers,     \* useDispatcher: promiseState of each tracker useMemo has created
    actionsState, \* useDispatcher: actionsState.current
    dispatched    \* useDispatcher: invocations of the wrapped actions handed out

vars == <<state, listeners, regs, unsubCalls, stack, calls, log,
          inv, promiseState, delivered, isSubscribed, settled, heap, received,
          repos, hook, effects, setCalls, trackers, actionsState, dispatched>>

repoVars == <<state, listeners, regs, unsubCalls, stack, calls, log>>
trackVars == <<inv, promiseState, delivered, isSubscribed, settled, heap, received>>
dispVars == <<trackers, actionsState, dispatched>>
bindVars == <<repos, hook, effects, setCalls, dispVars>>

\* ------------------------------------------------------------ sequences
RECURSIVE LastIndexOf(_, _, _)
\* the largest i <= n with s[i].fn = fn, or 0
LastIndexOf(s, fn, n) ==
    IF n = 0 THEN 0
    ELSE IF s[n].fn = fn THEN n
    ELSE LastIndexOf(s, fn, n - 1)

RemoveAt(s, i) ==
    [j \in 1..(Len(s) - 1) |-> IF j < i THEN s[j] ELSE s[j + 1]]

Ids(s) == [j \in 1..Len(s) |-> s[j].id]

RECURSIVE Sum(_, _)
\* s[1] + ... + s[n]
Sum(s, n) == IF n = 0 THEN 0 ELSE s[n] + Sum(s, n - 1)

IsPrefix(s, t) ==
    /\ Len(s) <= Len(t)
    /\ \A j \in 1..Len(s) : s[j] = t[j]

\* ------------------------------------------------------------ repository
\* eventEmitter.on("change", listener): appends, duplicates allowed
on(ls, fn, id) == Append(ls, [fn |-> fn, id |-> id])

\* eventEmitter.off("change", listener): removes the most recently added
\* registration of that listener function, if there is one
off(ls, fn) ==
    LET i == LastIndexOf(ls, fn, Len(ls))
    IN  IF i = 0 THEN ls ELSE RemoveAt(ls, i)

\* eventEmitter.emit("change", next, prev): iterates over a copy of the
\* array taken when emit is called
emitMutReverse(ls, next, prev, callId) ==
    [call |-> callId, new |-> next, old |-> prev,
     queue |-> [j \in 1..Len(ls) |-> ls[Len(ls) + 1 - j]]]

emit(ls, next, prev, callId) ==
    [call |-> callId, new |-> next, old |-> prev, queue |-> ls]

\* setState: prevState = state; state = nextState; emit(nextState, prevState)
setStateMutPrev(nextState, by, stk) ==
    /\ state' = nextState
    /\ stack' = Append(stk, emit(listeners, nextState, nextState, Len(calls) + 1))
    /\ calls' = Append(calls, [new |-> nextState, old |-> state, snap |-> listeners,
                               parent |-> IF stack = <<>> THEN 0
                                          ELSE stack[Len(stack)].call,
                               by |-> by, returned |-> FALSE])

setState(nextState, by, stk) ==
    /\ state' = nextState
    /\ stack' = Append(stk, emit(listeners, nextState, state, Len(calls) + 1))
    /\ calls' = Append(calls, [new |-> nextState, old |-> state, snap |-> listeners,
                               parent |-> IF stack = <<>> THEN 0
                                          ELSE stack[Len(stack)].call,
                               by |-> by, returned |-> FALSE])

Top == stack[Len(stack)]

\* the emission on top of the stack hands its next listener the arguments
PopListener ==
    [stack EXCEPT ![Len(stack)].queue = Tail(@)]

Invoked(r) ==
    Append(log, [call |-> Top.call, fn |-> r.fn, id |-> r.id,
                 new |-> Top.new, old |-> Top.old, cur |-> state])

\* ------------------------------------------------- repository: operations
Idle == stack = <<>>

\* repository.onChange(listener), called outside any emission
onChange(fn) ==
    /\ Idle
    /\ Len(regs) < MaxRegs
    /\ listeners' = on(listeners, fn, Len(regs) + 1)
    /\ regs' = Append(regs, fn)
    /\ unsubCalls' = Append(unsubCalls, 0)
    /\ UNCHANGED <<state, stack, calls, log>>
    /\ UNCHANGED trackVars
    /\ UNCHANGED bindVars

\* the function returned by the k-th onChange call, called outside any emission
unsubscribe(k) ==
    /\ Idle
    /\ k \in 1..Len(regs)
    /\ Sum(unsubCalls, Len(unsubCalls)) < MaxUnsub
    /\ listeners' = off(listeners, regs[k])
    /\ unsubCalls' = [unsubCalls EXCEPT ![k] = @ + 1]
    /\ UNCHANGED <<state, regs, stack, calls, log>>
    /\ UNCHANGED trackVars
    /\ UNCHANGED bindVars

\* repository.setState(v), called outside any emission by the owner of the state
CallSetState(v) ==
    /\ Idle
    /\ Len(calls) < MaxCalls
    /\ setState(v, 0, stack)
    /\ UNCHANGED <<listeners, regs, unsubCalls, log>>
    /\ UNCHANGED trackVars
    /\ UNCHANGED bindVars

\* emit invokes the next listener of its copy; the listener only reads
ListenerReturns ==
    /\ ~Idle
    /\ Top.queue # <<>>
    /\ log' = Invoked(Head(Top.queue))
    /\ stack' = PopListener
    /\ UNCHANGED <<state, listeners, regs, unsubCalls, calls>>
    /\ UNCHANGED trackVars
    /\ UNCHANGED bindVars

\* emit invokes the next listener, which calls repository.setState(w)
ListenerSetsState(w) ==
    /\ ~Idle
    /\ Top.queue # <<>>
    /\ Len(calls) < MaxCalls
    /\ log' = Invoked(Head(Top.queue))
    /\ setState(w, 0, PopListener)
    /\ UNCHANGED <<listeners, regs, unsubCalls>>
    /\ UNCHANGED trackVars
    /\ UNCHANGED bindVars

\* emit invokes the next listener, which calls the function the k-th
\* onChange returned
ListenerUnsubscribes(k) ==
    /\ ~Idle
    /\ Top.queue # <<>>
    /\ k \in 1..Len(regs)
    /\ Sum(unsubCalls, Len(unsubCalls)) < MaxUnsub
    /\ log' = Invoked(Head(Top.queue))
    /\ stack' = PopListener
    /\ listeners' = off(listeners, regs[k])
    /\ unsubCalls' = [unsubCalls EXCEPT ![k] = @ + 1]
    /\ UNCHANGED <<state, regs, calls>>
    /\ UNCHANGED trackVars
    /\ UNCHANGED bindVars

\* emit invokes the next listener, which calls repository.onChange(fn)
ListenerSubscribes(fn) ==
    /\ ~Idle
    /\ Top.queue # <<>>
    /\ Len(regs) < MaxRegs
    /\ log' = Invoked(Head(Top.queue))
    /\ stack' = PopListener
    /\ listeners' = on(listeners, fn, Len(regs) + 1)
    /\ regs' = Append(regs, fn)
    /\ unsubCalls' = Append(unsubCalls, 0)
    /\ UNCHANGED <<state, calls>>
    /\ UNCHANGED trackVars
    /\ UNCHANGED bindVars

\* emit has invoked every listener of its copy: setState returns
EmitReturns ==
    /\ ~Idle
    /\ Top.queue = <<>>
    /\ stack' = SubSeq(stack, 1, Len(stack) - 1)
    /\ calls' = [calls EXCEPT ![Top.call].returned = TRUE]
    /\ UNCHANGED <<state, listeners, regs, unsubCalls, log>>
    /\ UNCHANGED trackVars
    /\ UNCHANGED bindVars

\* ------------------------------------------------------ outcomes of calls
NoOutcome == [kind |-> "none", val |-> InitialState, err |-> ""]
Void == [kind |-> "void", val |-> InitialState, err |-> ""]
Value(v) == [kind |-> "value", val |-> v, err |-> ""]
Error(e) == [kind |-> "error", val |-> InitialState, err |-> e]
CallbackError == Error("callback")

Outcomes == {Value(v) : v \in Values} \cup {Error(e) : e \in Errors}

\* ------------------------------------------------------------- tracker
\* trackActions.handleChange: a new snapshot, the counter of name changed
handleChange(ps, name, phase) ==
    [ps EXCEPT ![name] = IF phase = "pending" THEN @ + 1 ELSE @ - 1]

\* wrapAction.emitChange: the snapshot after the event, if it is delivered
emitChange(ps, name, phase) ==
    IF isSubscribed[name] THEN handleChange(ps, name, phase) ELSE ps

\* handleChange on the objects: newState = { ...promiseState } is a new
\* object, the last of the heap; it is changed, becomes promiseState and is
\* handed to onChange. h is the heap with the calls of onChange made so far
snapshotMutInPlace(h, name, phase) ==
    LET objs == [h.heap EXCEPT ![Len(h.heap)] = handleChange(@, name, phase)]
    IN  [heap |-> objs,
         received |-> Append(h.received,
                        [ref |-> Len(objs), name |-> name, phase |-> phase,
                         seen |-> objs[Len(objs)]])]

snapshot(h, name, phase) ==
    LET objs == Append(h.heap, handleChange(h.heap[Len(h.heap)], name, phase))
    IN  [heap |-> objs,
         received |-> Append(h.received,
                        [ref |-> Len(objs), name |-> name, phase |-> phase,
                         seen |-> objs[Len(objs)]])]

RECURSIVE snapshots(_, _, _)
\* one handleChange call per phase event of phases, in order
snapshots(h, name, phases) ==
    IF phases = <<>> THEN h
    ELSE snapshots(snapshot(h, name, Head(phases)), name, Tail(phases))

\* the events of an emitChange call that reach the callback
Emitted(name, phase) ==
    IF isSubscribed[name] THEN <<phase>> ELSE <<>>

\* wrapAction.unsubscribe of the wrapper of action n
WrapperUnsubscribeMutAll(n) ==
    /\ Idle
    /\ isSubscribed' = [m \in Names |-> FALSE]
    /\ UNCHANGED <<inv, promiseState, delivered, heap, received, settled>>
    /\ UNCHANGED repoVars
    /\ UNCHANGED bindVars

WrapperUnsubscribe(n) ==
    /\ Idle
    /\ isSubscribed' = [isSubscribed EXCEPT ![n] = FALSE]
    /\ UNCHANGED <<inv, promiseState, delivered, heap, received, settled>>
    /\ UNCHANGED repoVars
    /\ UNCHANGED bindVars

\* the record of an invocation: tracked, if it was made through a wrapper of
\* wrapAction; bound, if the action called is a store-bound one
Invocation(n, tracked, bound, pc, out, trace) ==
    [name |-> n, tracked |-> tracked, bound |-> bound, pc |-> pc,
     raw |-> NoOutcome, res |-> NoOutcome, out |-> out, trace |-> trace]

\* a wrapped action is invoked: wrapAction.impl runs up to its await. The
\* tracker's callback, if the event reaches it, either returns or raises; if
\* it raises on "pending" the underlying action is never called and the
\* wrapped call fails
InvokeWrapped(n, raises, bound) ==
    /\ Idle
    /\ Len(inv) < MaxInv
    /\ raises => isSubscribed[n]
    /\ promiseState' = emitChange(promiseState, n, "pending")
    /\ delivered' = promiseState'
    /\ LET h == snapshots([heap |-> heap, received |-> received], n,
                          Emitted(n, "pending"))
       IN  heap' = h.heap /\ received' = h.received
    /\ inv' = Append(inv,
          IF raises
          THEN Invocation(n, TRUE, bound, "done", CallbackError, <<"pending">>)
          ELSE Invocation(n, TRUE, bound, "running", NoOutcome,
                          Emitted(n, "pending") \o <<"called">>))
    /\ UNCHANGED <<isSubscribed, settled>>
    /\ UNCHANGED repoVars
    /\ UNCHANGED bindVars

\* a store-bound action is called directly: storifyAction.impl runs up to
\* its await
InvokeBound(n) ==
    /\ Idle
    /\ Len(inv) < MaxInv
    /\ inv' = Append(inv, Invocation(n, FALSE, TRUE, "running", NoOutcome, <<"called">>))
    /\ UNCHANGED <<promiseState, delivered, heap, received, isSubscribed, settled>>
    /\ UNCHANGED repoVars
    /\ UNCHANGED bindVars

\* the underlying asynchronous operation of invocation i settles with
\* outcome o: the code awaiting it is next to resume
RawSettlesMutWrapperFirst(i, o) ==
    /\ Idle
    /\ i \in 1..Len(inv)
    /\ inv[i].pc = "running"
    /\ inv' = [inv EXCEPT ![i].pc = "bound", ![i].raw = o, ![i].res = o]
    /\ UNCHANGED <<promiseState, delivered, heap, received, isSubscribed, settled>>
    /\ UNCHANGED repoVars
    /\ UNCHANGED bindVars

RawSettles(i, o) ==
    /\ Idle
    /\ i \in 1..Len(inv)
    /\ inv[i].pc = "running"
    /\ inv' = IF inv[i].bound
              THEN [inv EXCEPT ![i].pc = "settled", ![i].raw = o]
              ELSE [inv EXCEPT ![i].pc = "bound", ![i].raw = o, ![i].res = o]
    /\ UNCHANGED <<promiseState, delivered, heap, received, isSubscribed, settled>>
    /\ UNCHANGED repoVars
    /\ UNCHANGED bindVars

\* what the store-bound call of invocation i settles with, and where the
\* invocation continues
Bound(i, res) ==
    IF inv[i].tracked
    THEN [inv EXCEPT ![i].pc = "bound", ![i].res = res]
    ELSE [inv EXCEPT ![i].pc = "done", ![i].res = res, ![i].out = res]

\* storifyAction.impl resumes after its await: setState(result) on success,
\* the failure rethrown otherwise
StoreResumesMutAlways(i) ==
    /\ Idle
    /\ i \in 1..Len(inv)
    /\ inv[i].pc = "settled"
    /\ settled' = Append(settled, i)
    /\ setState(inv[i].raw.val, i, stack)
    /\ inv' = Bound(i, IF inv[i].raw.kind = "value" THEN Void ELSE inv[i].raw)
    /\ UNCHANGED <<listeners, regs, unsubCalls, log>>
    /\ UNCHANGED <<promiseState, delivered, heap, received, isSubscribed>>
    /\ UNCHANGED bindVars

StoreResumesMutReturnsState(i) ==
    /\ Idle
    /\ i \in 1..Len(inv)
    /\ inv[i].pc = "settled"
    /\ settled' = Append(settled, i)
    /\ inv' = Bound(i, inv[i].raw)
    /\ IF inv[i].raw.kind = "value"
       THEN setState(inv[i].raw.val, i, stack)
       ELSE UNCHANGED <<state, stack, calls>>
    /\ UNCHANGED <<listeners, regs, unsubCalls, log>>
    /\ UNCHANGED <<promiseState, delivered, heap, received, isSubscribed>>
    /\ UNCHANGED bindVars

StoreResumesMutStale(i) ==
    /\ Idle
    /\ i \in 1..Len(inv)
    /\ inv[i].pc = "settled"
    /\ settled' = Append(settled, i)
    /\ inv' = Bound(i, IF inv[i].raw.kind = "value" THEN Void ELSE inv[i].raw)
    /\ IF inv[i].raw.kind = "value" /\ \A c \in 1..Len(calls) : calls[c].by < i
       THEN setState(inv[i].raw.val, i, stack)
       ELSE UNCHANGED <<state, stack, calls>>
    /\ UNCHANGED <<listeners, regs, unsubCalls, log>>
    /\ UNCHANGED <<promiseState, delivered, heap, received, isSubscribed>>
    /\ UNCHANGED bindVars

StoreResumes(i) ==
    /\ Idle
    /\ i \in 1..Len(inv)
    /\ inv[i].pc = "settled"
    /\ settled' = Append(settled, i)
    /\ inv' = Bound(i, IF inv[i].raw.kind = "value" THEN Void ELSE inv[i].raw)
    /\ IF inv[i].raw.kind = "value"
       THEN setState(inv[i].raw.val, i, stack)
       ELSE UNCHANGED <<state, stack, calls>>
    /\ UNCHANGED <<listeners, regs, unsubCalls, log>>
    /\ UNCHANGED <<promiseState, delivered, heap, received, isSubscribed>>
    /\ UNCHANGED bindVars

\* wrapAction.impl resumes after its await, once the action it wraps has
\* settled (a store-bound one: once its setState has returned). If that
\* succeeded it emits "resolved" and returns the response; a callback that
\* raises there is caught by the same try, so "rejected" is emitted too and
\* the call fails with the callback's error. If it failed it emits "rejected"
\* and rethrows, unless the callback raises in the catch block
WrapResumes(i, raises) ==
    /\ Idle
    /\ i \in 1..Len(inv)
    /\ inv[i].pc = "bound"
    /\ raises => isSubscribed[inv[i].name]
    /\ LET n == inv[i].name
           ok == inv[i].res.kind # "error"
           ps1 == emitChange(promiseState, n, IF ok THEN "resolved" ELSE "rejected")
           ps2 == emitChange(ps1, n, "rejected")
       IN  IF ok /\ raises
           THEN /\ promiseState' = ps2
                /\ inv' = [inv EXCEPT ![i].pc = "done", ![i].out = CallbackError,
                              ![i].trace = @ \o <<"resolved", "rejected">>]
           ELSE /\ promiseState' = ps1
                /\ inv' = [inv EXCEPT ![i].pc = "done",
                              ![i].out = IF raises THEN CallbackError ELSE inv[i].res,
                              ![i].trace =
                                  @ \o Emitted(n, IF ok THEN "resolved" ELSE "rejected")]
    /\ delivered' = promiseState'
    /\ LET n == inv[i].name
           ok == inv[i].res.kind # "error"
           h == snapshots([heap |-> heap, received |-> received], n,
                          IF ok /\ raises THEN <<"resolved", "rejected">>
                          ELSE Emitted(n, IF ok THEN "resolved" ELSE "rejected"))
       IN  heap' = h.heap /\ received' = h.received
    /\ UNCHANGED <<isSubscribed, settled>>
    /\ UNCHANGED repoVars
    /\ UNCHANGED bindVars

\* ------------------------------------------------------------ useSelector
\* One consumer of useSelector. React calls the hook on every render of the
\* consumer, runs the effect of a render after the render has been committed
\* (other code may run in between) and before the next render, and runs the
\* effect's cleanup before the effect runs again and when the consumer is
\* unmounted. The repositories here are listened to by refresh only, which
\* never calls back into the repository, so a setState call with its emission
\* is one uninterrupted segment.
Repositories == {"a", "b"}
Selectors == {"identity", "isZero"}
EqualityFns == {"isEqualRef", "alwaysEqual"}

\* the arguments of a call of useSelector
Args == [repository : Repositories, selector : Selectors, equalityFn : EqualityFns]

selector(s, v) ==
    IF s = "identity" THEN v
    ELSE IF v = 0 THEN 1 ELSE 0

isEqualRef(a, b) == a = b

equalityFn(e, a, b) ==
    IF e = "isEqualRef" THEN isEqualRef(a, b) ELSE TRUE

NoArgs == [repository |-> "a", selector |-> "identity", equalityFn |-> "isEqualRef"]
NoRefresh == [k |-> 0, inst |-> 0, args |-> NoArgs]

\* the hooks of a consumer that is not rendered: current is
\* selectedStateRef.current, signals the number of forceRender calls,
\* computed the number of times refresh has evaluated the selector
Unmounted ==
    [mounted |-> FALSE, inst |-> 0, current |-> InitialState, args |-> NoArgs,
     pending |-> FALSE, cleanup |-> NoRefresh, signals |-> 0, computed |-> 0]

\* refresh, the closure the k-th run of the effect creates: it refers to the
\* repository, selector and equalityFn of the render the effect belongs to
\* and to the ref of its consumer instance
Refresh(k, h) == [k |-> k, inst |-> h.inst, args |-> h.args]

\* refresh(): the hooks after the closure fn has run on repository state v
refreshMutNoEquality(fn, v, h) ==
    LET newSelectedState == selector(fn.args.selector, v)
    IN  IF fn.inst # h.inst THEN h
        ELSE [h EXCEPT !.current = newSelectedState, !.signals = @ + 1,
                       !.computed = @ + 1]

refresh(fn, v, h) ==
    LET newSelectedState == selector(fn.args.selector, v)
    IN  IF fn.inst # h.inst THEN h
        ELSE IF ~equalityFn(fn.args.equalityFn, newSelectedState, h.current)
        THEN [h EXCEPT !.current = newSelectedState, !.signals = @ + 1,
                       !.computed = @ + 1]
        ELSE [h EXCEPT !.computed = @ + 1]

RECURSIVE notify(_, _, _)
\* emit over the copy ls of the listener array: each listener in order
notify(ls, v, h) ==
    IF ls = <<>> THEN h
    ELSE notify(Tail(ls), v, refresh(Head(ls).fn, v, h))

\* first render of the consumer: useRef(selector(repository.state)), the
\* effect is scheduled, the hook returns selectedStateRef.current
Mount(args) ==
    /\ ~hook.mounted
    /\ effects < MaxEffects
    /\ hook' = [mounted |-> TRUE, inst |-> effects + 1,
                current |-> selector(args.selector, repos[args.repository].state),
                args |-> args, pending |-> TRUE, cleanup |-> NoRefresh,
                signals |-> 0, computed |-> 0]
    /\ UNCHANGED <<repos, effects, setCalls>>
    /\ UNCHANGED <<repoVars, trackVars, dispVars>>

\* a later render, with the same or other arguments: the ref keeps its value;
\* the effect is scheduled again if one of its dependencies has changed
Rerender(args) ==
    /\ hook.mounted
    /\ ~hook.pending
    /\ args # hook.args => effects < MaxEffects
    /\ hook' = [hook EXCEPT !.args = args, !.pending = (args # hook.args)]
    /\ UNCHANGED <<repos, effects, setCalls>>
    /\ UNCHANGED <<repoVars, trackVars, dispVars>>

CleanedMutNoCleanup(r) == repos[r].listeners

\* the listener array of repository r once the cleanup of the previous run
\* of the effect, if there is one on r, has run
Cleaned(r) ==
    IF hook.cleanup # NoRefresh /\ hook.cleanup.args.repository = r
    THEN off(repos[r].listeners, hook.cleanup)
    ELSE repos[r].listeners

\* the effect of the last render runs: the cleanup of the previous run, then
\* unsubscribe = repository.onChange(refresh)
RunEffect ==
    /\ hook.mounted
    /\ hook.pending
    /\ LET fn == Refresh(effects + 1, hook)
       IN  /\ repos' = [r \in Repositories |->
                          [repos[r] EXCEPT !.listeners =
                              IF r = hook.args.repository
                              THEN on(Cleaned(r), fn, effects + 1)
                              ELSE Cleaned(r)]]
           /\ hook' = [hook EXCEPT !.pending = FALSE, !.cleanup = fn]
    /\ effects' = effects + 1
    /\ UNCHANGED setCalls
    /\ UNCHANGED <<repoVars, trackVars, dispVars>>

\* the consumer is unmounted: the cleanup of the last run of the effect
Unmount ==
    /\ hook.mounted
    /\ ~hook.pending
    /\ repos' = [r \in Repositories |-> [repos[r] EXCEPT !.listeners = Cleaned(r)]]
    /\ hook' = Unmounted
    /\ UNCHANGED <<effects, setCalls>>
    /\ UNCHANGED <<repoVars, trackVars, dispVars>>

\* repository.setState(v) on repository r: the state is replaced and every
\* listener registered is invoked
RepositorySetState(r, v) ==
    /\ Len(setCalls) < MaxCalls
    /\ setCalls' = Append(setCalls, [repository |-> r, next |-> v])
    /\ repos' = [repos EXCEPT ![r].state = v]
    /\ hook' = notify(repos[r].listeners, v, hook)
    /\ UNCHANGED effects
    /\ UNCHANGED <<repoVars, trackVars, dispVars>>

\* ---------------------------------------------------------- useDispatcher
\* One consumer of useDispatcher. useMemo creates a tracker in the first render
\* and in every render in which the actions argument has changed identity;
\* all these trackers report to the one ref actionsState of the consumer. The
\* callback handleChange of useDispatcher returns normally.
NoSnapshot == [n \in Names |-> 0]

\* a render of the consumer: useDispatcher(actions), changed if actions is
\* not the object of the previous render
RenderDispatcher(changed) ==
    /\ trackers = <<>> => changed
    /\ changed => Len(trackers) < MaxTrackers
    /\ IF changed
       THEN /\ trackers' = Append(trackers, [n \in Names |-> 0])
            /\ actionsState' = trackers'[Len(trackers')]
       ELSE UNCHANGED <<trackers, actionsState>>
    /\ UNCHANGED dispatched
    /\ UNCHANGED <<repos, hook, effects, setCalls>>
    /\ UNCHANGED <<repoVars, trackVars>>

\* the wrapped action n handed out by the last render is called:
\* emitChange("pending") reaches handleChange of its tracker and, through it,
\* handleChange of useDispatcher
Dispatch(n) ==
    /\ trackers # <<>>
    /\ Len(dispatched) < MaxInv
    /\ LET t == Len(trackers)
       IN  /\ trackers' = [trackers EXCEPT ![t] = handleChange(@, n, "pending")]
           /\ actionsState' = trackers'[t]
           /\ dispatched' = Append(dispatched, [tracker |-> t, name |-> n, pc |-> "running"])
    /\ UNCHANGED <<repos, hook, effects, setCalls>>
    /\ UNCHANGED <<repoVars, trackVars>>

\* the action of invocation i has settled and wrapAction.impl resumes:
\* emitChange("resolved" or "rejected") on the tracker the wrapper belongs to
DispatchedSettles(i, ok) ==
    /\ i \in 1..Len(dispatched)
    /\ dispatched[i].pc = "running"
    /\ LET t == dispatched[i].tracker
           n == dispatched[i].name
       IN  /\ trackers' = [trackers EXCEPT ![t] =
                              handleChange(@, n, IF ok THEN "resolved" ELSE "rejected")]
           /\ actionsState' = trackers'[t]
    /\ dispatched' = [dispatched EXCEPT ![i].pc = IF ok THEN "resolved" ELSE "rejected"]
    /\ UNCHANGED <<repos, hook, effects, setCalls>>
    /\ UNCHANGED <<repoVars, trackVars>>

\* ---------------------------------------------------------- counter store
\* createCounterStore: the repository holds { value, version }; the three
\* actions are bound to it by createStore. An invocation carries the count it
\* was called with and the state its action has read.
CounterNames == {"increment", "decrement", "reset"}
Counts == {1, 2}
CounterInitialState == [value |-> 0, version |-> 0]

\* the state the action `name` returns for the state st it has read
counterActionMutNoVersion(name, count, st) ==
    IF name = "increment"
    THEN [value |-> st.value + count, version |-> st.version + 1]
    ELSE IF name = "decrement"
    THEN [value |-> st.value - count, version |-> st.version + 1]
    ELSE [value |-> 0, version |-> st.version]

counterAction(name, count, st) ==
    IF name = "increment"
    THEN [value |-> st.value + count, version |-> st.version + 1]
    ELSE IF name = "decrement"
    THEN [value |-> st.value - count, version |-> st.version + 1]
    ELSE [value |-> 0, version |-> st.version + 1]

\* a store-bound counter action is called: storifyAction.impl calls the
\* action and awaits it. increment starts its wait; decrement and reset read
\* repository.state at once and return, so their result is fixed here and
\* impl resumes in a later microtask, after the code that made the call
InvokeCounter(n, count) ==
    /\ Idle
    /\ Len(inv) < MaxInv
    /\ LET i == Invocation(n, FALSE, TRUE, "running", NoOutcome, <<"called">>)
                   @@ [count |-> count, read |-> state]
       IN  inv' = Append(inv,
                    IF n = "increment" THEN i
                    ELSE [i EXCEPT !.pc = "settled",
                                   !.raw = Value(counterAction(n, count, state))])
    /\ UNCHANGED <<promiseState, delivered, heap, received, isSubscribed, settled>>
    /\ UNCHANGED repoVars
    /\ UNCHANGED bindVars

\* the wait of increment is over (timers fire in the order they were set, and
\* only when no microtask is left): the action reads repository.state and
\* returns, impl resumes and calls setState(result), with nothing in between
IncrementResumes(i) ==
    /\ Idle
    /\ i \in 1..Len(inv)
    /\ inv[i].pc = "running"
    /\ \A j \in 1..Len(inv) : inv[j].pc # "settled"
    /\ \A j \in 1..(i - 1) : inv[j].pc # "running"
    /\ LET result == counterAction(inv[i].name, inv[i].count, state)
       IN  /\ inv' = [inv EXCEPT ![i].pc = "done", ![i].read = state,
                                 ![i].raw = Value(result),
                                 ![i].res = Void, ![i].out = Void]
           /\ setState(result, i, stack)
    /\ settled' = Append(settled, i)
    /\ UNCHANGED <<listeners, regs, unsubCalls, log>>
    /\ UNCHANGED <<promiseState, delivered, heap, received, isSubscribed>>
    /\ UNCHANGED bindVars

\* impl of a decrement or reset resumes; microtasks run in the order they
\* were queued
CounterResumes(i) ==
    /\ i \in 1..Len(inv)
    /\ \A j \in 1..(i - 1) : inv[j].pc # "settled"
    /\ StoreResumes(i)

\* ---------------------------------------------------------- specifications
\* createRepository(initialState); trackActions(actions, onChange)
Init ==
    /\ state = InitialState
    /\ listeners = <<>>
    /\ regs = <<>>
    /\ unsubCalls = <<>>
    /\ stack = <<>>
    /\ calls = <<>>
    /\ log = <<>>
    /\ inv = <<>>
    /\ promiseState = [n \in Names |-> 0]
    /\ delivered = [n \in Names |-> 0]
    /\ isSubscribed = [n \in Names |-> TRUE]
    /\ settled = <<>>
    /\ heap = <<[n \in Names |-> 0]>>
    /\ received = <<>>
    /\ repos = [r \in Repositories |-> [state |-> InitialState, listeners |-> <<>>]]
    /\ hook = Unmounted
    /\ effects = 0
    /\ setCalls = <<>>
    /\ trackers = <<>>
    /\ actionsState = NoSnapshot
    /\ dispatched = <<>>

\* trackActions over plain asynchronous operations, with a callback that
\* may raise
NextTrack ==
    \/ \E n \in Names, raises \in BOOLEAN : InvokeWrapped(n, raises, FALSE)
    \/ \E i \in 1..MaxInv, o \in Outcomes : RawSettles(i, o)
    \/ \E i \in 1..MaxInv, raises \in BOOLEAN : WrapResumes(i, raises)

SpecTrack == Init /\ [][NextTrack]_vars

\* wrapAction's results used directly: the wrapped actions, and the
\* unsubscribe function of each wrapper
NextWrap ==
    \/ \E n \in Names, raises \in BOOLEAN : InvokeWrapped(n, raises, FALSE)
    \/ \E i \in 1..MaxInv, o \in Outcomes : RawSettles(i, o)
    \/ \E i \in 1..MaxInv, raises \in BOOLEAN : WrapResumes(i, raises)
    \/ \E n \in Names : WrapperUnsubscribe(n)

SpecWrap == Init /\ [][NextWrap]_vars

\* createStore: store-bound actions called directly; the repository's
\* listeners only read, the bound actions are the only callers of setState
NextStore ==
    \/ \E fn \in Listeners : onChange(fn)
    \/ \E n \in Names : InvokeBound(n)
    \/ \E i \in 1..MaxInv, o \in Outcomes : RawSettles(i, o)
    \/ \E i \in 1..MaxInv : StoreResumes(i)
    \/ ListenerReturns
    \/ EmitReturns

SpecStore == Init /\ [][NextStore]_vars

\* store-bound actions invoked through the wrappers of a tracker whose
\* callback returns, as in useDispatcher(store.actions); the repository's
\* listeners only read, so one listener function, registered any number of
\* times, stands for them
NextPipe ==
    \/ onChange("f")
    \/ \E n \in Names : InvokeWrapped(n, FALSE, TRUE)
    \/ \E i \in 1..MaxInv, o \in Outcomes : RawSettles(i, o)
    \/ \E i \in 1..MaxInv : StoreResumes(i)
    \/ ListenerReturns
    \/ EmitReturns
    \/ \E i \in 1..MaxInv : WrapResumes(i, FALSE)

SpecPipe == Init /\ [][NextPipe]_vars

\* createCounterStore(): the store-bound counter actions called directly
InitCounter ==
    /\ state = CounterInitialState
    /\ listeners = <<>>
    /\ regs = <<>>
    /\ unsubCalls = <<>>
    /\ stack = <<>>
    /\ calls = <<>>
    /\ log = <<>>
    /\ inv = <<>>
    /\ promiseState = [n \in Names |-> 0]
    /\ delivered = [n \in Names |-> 0]
    /\ isSubscribed = [n \in Names |-> TRUE]
    /\ settled = <<>>
    /\ heap = <<[n \in Names |-> 0]>>
    /\ received = <<>>
    /\ repos = [r \in Repositories |-> [state |-> InitialState, listeners |-> <<>>]]
    /\ hook = Unmounted
    /\ effects = 0
    /\ setCalls = <<>>
    /\ trackers = <<>>
    /\ actionsState = NoSnapshot
    /\ dispatched = <<>>

NextCounter ==
    \/ onChange("f")
    \/ \E n \in CounterNames, count \in Counts : InvokeCounter(n, count)
    \/ \E i \in 1..MaxInv : IncrementResumes(i)
    \/ \E i \in 1..MaxInv : CounterResumes(i)
    \/ ListenerReturns
    \/ EmitReturns

SpecCounter == InitCounter /\ [][NextCounter]_vars

\* the repository alone, with listeners that may call back into it
NextRepo ==
    \/ \E fn \in Listeners : onChange(fn)
    \/ \E k \in 1..MaxRegs : unsubscribe(k)
    \/ \E v \in Values : CallSetState(v)
    \/ ListenerReturns
    \/ \E w \in Values : ListenerSetsState(w)
    \/ \E k \in 1..MaxRegs : ListenerUnsubscribes(k)
    \/ \E fn \in Listeners : ListenerSubscribes(fn)
    \/ EmitReturns

SpecRepo == Init /\ [][NextRepo]_vars

\* one useSelector consumer, rendered, re-rendered and unmounted by React,
\* over repositories whose state their owner replaces
NextSelect ==
    \/ \E args \in Args : Mount(args)
    \/ \E args \in Args : Rerender(args)
    \/ RunEffect
    \/ Unmount
    \/ \E r \in Repositories, v \in Values : RepositorySetState(r, v)

SpecSelect == Init /\ [][NextSelect]_vars

\* one useDispatcher consumer, rendered with the same or with new actions,
\* whose wrapped actions are called and settle
NextDispatch ==
    \/ \E changed \in BOOLEAN : RenderDispatcher(changed)
    \/ \E n \in Names : Dispatch(n)
    \/ \E i \in 1..MaxInv, ok \in BOOLEAN : DispatchedSettles(i, ok)

SpecDispatch == Init /\ [][NextDispatch]_vars

\* --------------------------------------------------- tracker: properties
Count(seq, x) == Cardinality({j \in 1..Len(seq) : seq[j] = x})

\* the invocations of the wrapped action n that have started and not settled
InFlight(n) ==
    {i \in 1..Len(inv) : inv[i].tracked /\ inv[i].name = n /\ inv[i].pc # "done"}

\* C1: in the latest snapshot the counter of every action name equals the
\* number of invocations of that wrapped action that have started and not
\* yet settled (so it is 0 once all have settled).
TrackerCounterInvariant ==
    \A n \in Names : delivered[n] = Cardinality(InFlight(n))

\* C2: every invocation of a wrapped operation emits "pending" first, before
\* the underlying operation is called; if the underlying operation succeeded,
\* "resolved" was emitted and the wrapped call yields the underlying result;
\* if it failed, "rejected" was emitted and the wrapped call fails with the
\* same failure.
PhaseEmissionContract ==
    \A i \in 1..Len(inv) :
        inv[i].tracked =>
            /\ inv[i].trace[1] = "pending"
            /\ inv[i].pc = "done" /\ inv[i].res.kind \in {"value", "void"} =>
                  /\ Count(inv[i].trace, "resolved") = 1
                  /\ inv[i].out = inv[i].res
            /\ inv[i].pc = "done" /\ inv[i].res.kind = "error" =>
                  /\ Count(inv[i].trace, "rejected") = 1
                  /\ inv[i].out = inv[i].res

\* C3: every invocation of a wrapped operation produces exactly one "pending"
\* event and, once the underlying operation has settled and the wrapper has
\* resumed, exactly one terminal event, never both; no counter is below 0.
\* The callback may raise.
OnePendingOneTerminal ==
    /\ \A i \in 1..Len(inv) :
          inv[i].tracked =>
             LET terminal == Count(inv[i].trace, "resolved")
                               + Count(inv[i].trace, "rejected")
             IN  /\ Count(inv[i].trace, "pending") = 1
                 /\ terminal <= 1
                 /\ inv[i].pc = "done" /\ inv[i].res.kind # "none" => terminal = 1
    /\ \A n \in Names : promiseState[n] >= 0 /\ delivered[n] >= 0

\* ----------------------------------------------------- store: properties
\* the setState calls made for invocation i
CallsBy(i) == {c \in 1..Len(calls) : calls[c].by = i}

\* the store-bound call of invocation i settles in this step
BoundSettles(i) == inv[i].pc = "settled" /\ inv'[i].pc # "settled"

\* C4: when the underlying transition of a store-bound action fails, the
\* bound call fails with the same failure, setState is not called, the state
\* is unchanged and no listener is notified, whatever else is in flight.
StoreFailureLeavesRepository ==
    /\ [](\A c \in 1..Len(calls) :
             calls[c].by # 0 => inv[calls[c].by].raw.kind = "value")
    /\ [][\A i \in 1..Len(inv) :
             BoundSettles(i) /\ inv[i].raw.kind = "error" =>
                /\ inv'[i].res = inv[i].raw
                /\ UNCHANGED repoVars]_vars

\* a bound call has failed while another one was in flight, with a listener
\* registered
StoreFailureLeavesRepositoryWitness ==
    \E i \in 1..Len(inv) :
        /\ inv[i].pc = "done"
        /\ inv[i].out.kind = "error"
        /\ listeners # <<>>
        /\ \E j \in 1..Len(inv) : inv[j].pc \in {"running", "settled"}

\* C5: when the underlying transition of a store-bound action resolves to r,
\* the bound call calls setState(r) exactly once, when it resumes and not
\* before, the state is r right after that call, and the bound call settles
\* with no value.
StoreSuccessSetsStateOnce ==
    /\ [](\A i \in 1..Len(inv) :
             /\ inv[i].pc \in {"running", "settled"} => CallsBy(i) = {}
             /\ inv[i].bound /\ inv[i].raw.kind = "value"
                  /\ inv[i].pc \in {"bound", "done"} =>
                   /\ Cardinality(CallsBy(i)) = 1
                   /\ \A c \in CallsBy(i) : calls[c].new = inv[i].raw.val
                   /\ inv[i].res = Void)
    /\ [][\A i \in 1..Len(inv) :
             BoundSettles(i) /\ inv[i].raw.kind = "value" =>
                state' = inv[i].raw.val]_vars

\* a bound call has succeeded with a value other than the state it replaced,
\* and the listener registered has been told
StoreSuccessSetsStateOnceWitness ==
    \E i \in 1..Len(inv) :
        /\ inv[i].pc = "done"
        /\ inv[i].out = Void
        /\ \E c \in CallsBy(i) :
              /\ calls[c].returned
              /\ calls[c].new # calls[c].old
              /\ \E j \in 1..Len(log) : log[j].call = c

RECURSIVE LastSuccess(_)
\* the invocation whose store-bound call was the last of the first n to
\* settle with success, or 0
LastSuccess(n) ==
    IF n = 0 THEN 0
    ELSE IF inv[settled[n]].raw.kind = "value" THEN settled[n]
    ELSE LastSuccess(n - 1)

\* C6: store-bound invocations are not serialized: the state is the result
\* of the successful invocation that settled last, in whatever order the
\* invocations were made.
LastSettledWins ==
    LET i == LastSuccess(Len(settled))
    IN  state = IF i = 0 THEN InitialState ELSE inv[i].raw.val

\* two invocations of the same action were in flight together, the one made
\* later settled first, both succeeded with different values, and the state
\* is the result of the one made first
LastSettledWinsWitness ==
    /\ Len(settled) = 2
    /\ settled[1] > settled[2]
    /\ inv[settled[1]].name = inv[settled[2]].name
    /\ inv[settled[1]].raw.kind = "value"
    /\ inv[settled[2]].raw.kind = "value"
    /\ inv[settled[1]].raw.val # inv[settled[2]].raw.val
    /\ Idle
    /\ state = inv[settled[2]].raw.val

\* ------------------------------------------------ repository: properties
\* the listener invocations of the c-th setState call, in order
Entries(c) == SelectSeq(log, LAMBDA e : e.call = c)

\* the notifications the k-th registration has received, in order
Observed(k) ==
    LET es == SelectSeq(log, LAMBDA e : e.id = k)
    IN  [j \in 1..Len(es) |-> <<es[j].new, es[j].old>>]

\* (v1, v0), (v2, v1), ..., (vn, v(n-1)) for the setState calls made so far
Expected ==
    [i \in 1..Len(calls) |->
        <<calls[i].new, IF i = 1 THEN InitialState ELSE calls[i - 1].new>>]

Registered(k) == \E j \in 1..Len(listeners) : listeners[j].id = k

SubscribedThroughout(k) ==
    /\ Registered(k)
    /\ \A c \in 1..Len(calls) :
          \E j \in 1..Len(calls[c].snap) : calls[c].snap[j].id = k

RECURSIVE NestedIn(_, _)
\* the c2-th setState call was made, directly or not, from inside a listener
\* invoked by the emission of the c-th call
NestedIn(c2, c) ==
    /\ calls[c2].parent # 0
    /\ \/ calls[c2].parent = c
       \/ NestedIn(calls[c2].parent, c)

\* C7: once every setState call has returned, a registration that was
\* subscribed throughout has received exactly the notifications
\* (v1, v0), ..., (vn, v(n-1)), in the order of the calls.
NotificationCorrectness ==
    Idle => \A k \in 1..Len(regs) :
                SubscribedThroughout(k) => Observed(k) = Expected

\* every setState call has invoked a prefix of the listeners registered when
\* it was made, in registration order, and all of them once it has returned
InvokedInOrder ==
    \A c \in 1..Len(calls) :
        /\ IsPrefix(Ids(Entries(c)), Ids(calls[c].snap))
        /\ calls[c].returned => Len(Entries(c)) = Len(calls[c].snap)
        /\ \A j \in 1..(Len(calls[c].snap) - 1) :
              calls[c].snap[j].id < calls[c].snap[j + 1].id

ReentrantExactlyOnce ==
    /\ ~Idle => ENABLED (ListenerReturns \/ EmitReturns)
    /\ \A c \in 1..Len(calls) :
        /\ \A e \in {log[j] : j \in 1..Len(log)} :
              e.call = c =>
                 /\ e.new = calls[c].new
                 /\ e.old = calls[c].old
                 /\ \E i \in 1..Len(calls[c].snap) : calls[c].snap[i].id = e.id
        /\ \A i \in 1..Len(calls[c].snap) :
              LET n == Cardinality({j \in 1..Len(log) :
                           log[j].call = c /\ log[j].id = calls[c].snap[i].id})
              IN  IF calls[c].returned THEN n = 1 ELSE n <= 1

\* an outer call and a call nested in it have both returned, each with two
\* listeners to notify, and the nested call changed the value
ReentrantExactlyOnceWitness ==
    \E c \in 1..Len(calls) :
        /\ calls[c].parent # 0
        /\ calls[c].returned
        /\ calls[calls[c].parent].returned
        /\ Len(calls[c].snap) >= 2
        /\ calls[c].new # calls[c].old

\* C10: the function returned by an onChange call removes the registration
\* that call created and nothing else, however often it is called: of every
\* listener function, as many registrations are in place as there were
\* onChange calls with it whose returned function has not been called.
UnsubscribeRemovesOwnRegistration ==
    \A fn \in Listeners :
        Cardinality({j \in 1..Len(listeners) : listeners[j].fn = fn})
          = Cardinality({k \in 1..Len(regs) : regs[k] = fn /\ unsubCalls[k] = 0})

\* every function returned by an onChange call with listener fn has been called
Unsubscribed(fn) ==
    /\ \E k \in 1..Len(regs) : regs[k] = fn
    /\ \A k \in 1..Len(regs) : regs[k] = fn => unsubCalls[k] > 0

\* C11: a listener is never invoked once the unsubscribe function of every
\* onChange call made with it has been called, be it between two setState
\* calls or from inside another listener during an emission.
UnsubscribedNeverInvoked ==
    [][Len(log') > Len(log) => ~Unsubscribed(log'[Len(log')].fn)]_vars

\* -------------------------------------------------- useSelector: properties
\* the consumer holds a registration on repository r
SubscribedTo(r) ==
    /\ hook.mounted
    /\ hook.cleanup # NoRefresh
    /\ hook.cleanup.args.repository = r
    /\ \E j \in 1..Len(repos[r].listeners) : repos[r].listeners[j].fn = hook.cleanup

\* a setState call on repository r is made in this step
SetStateOn(r) ==
    /\ Len(setCalls') = Len(setCalls) + 1
    /\ setCalls'[Len(setCalls')].repository = r

\* C12: for a subscribed consumer every setState makes refresh evaluate the
\* selector once, on the new state; if equalityFn(new value, cached value) is
\* false the re-render signal fires exactly once and the cache becomes the
\* new value, otherwise the signal does not fire and the cache is unchanged.
SelectorRerenderMinimality ==
    [][\A r \in Repositories :
          SetStateOn(r) /\ SubscribedTo(r) =>
             LET fn == hook.cleanup
                 newValue == selector(fn.args.selector, repos'[r].state)
             IN  /\ hook'.computed = hook.computed + 1
                 /\ IF equalityFn(fn.args.equalityFn, newValue, hook.current)
                    THEN /\ hook'.signals = hook.signals
                         /\ hook'.current = hook.current
                    ELSE /\ hook'.signals = hook.signals + 1
                         /\ hook'.current = newValue]_vars

\* with the default equality, the signal has fired for a setState that gave
\* a new selected value and has not fired for one that gave the same value
SelectorRerenderMinimalityWitness ==
    /\ hook.mounted
    /\ hook.cleanup.args.equalityFn = "isEqualRef"
    /\ hook.computed = 2
    /\ hook.signals = 1
    /\ hook.current # InitialState

\* C13: over any sequence of renders, re-binds and unmounts of a consumer,
\* every subscription is undone exactly once: while the consumer is attached
\* it holds one registration, on the repository of its last effect, and no
\* other registration exists; before its first effect and after unmount it
\* holds none.
SelectorSubscriptionBalanced ==
    \A r \in Repositories :
        repos[r].listeners =
            IF hook.mounted /\ hook.cleanup # NoRefresh
                 /\ hook.cleanup.args.repository = r
            THEN <<[fn |-> hook.cleanup, id |-> hook.cleanup.k]>>
            ELSE <<>>

\* a consumer mounted a second time has been re-bound from one repository
\* to the other and holds its registration there
SelectorSubscriptionBalancedWitness ==
    /\ hook.mounted
    /\ hook.inst > 1
    /\ hook.cleanup.k > hook.inst
    /\ hook.cleanup.args.repository = "b"
    /\ ~hook.pending
    /\ \E j \in 1..Len(setCalls) : setCalls[j].repository = "a"

\* ----------------------------------------- wrapper unsubscribe: properties
\* the phase events in the trace of an invocation
Events(trace) == SelectSeq(trace, LAMBDA e : e # "called")

\* the trace of invocation i before this step
TraceBefore(i) == IF i <= Len(inv) THEN inv[i].trace ELSE <<>>

\* invocation i settles in this step
Settles(i) == inv'[i].pc = "done" /\ (i > Len(inv) \/ inv[i].pc # "done")

\* C14: once a wrapper's unsubscribe has been called it stays unsubscribed and
\* no phase event of its invocations, in flight or started later, reaches the
\* callback; the underlying operation of each such invocation is still called
\* and the wrapped call settles with the underlying outcome. Unsubscribing
\* one wrapper leaves every other wrapper subscribed, and a subscribed
\* wrapper's events are delivered.
WrapperUnsubscribeSuppresses ==
    [][/\ \A n \in Names :
             /\ ~isSubscribed[n] =>
                   /\ ~isSubscribed'[n]
                   /\ promiseState'[n] = promiseState[n]
                   /\ delivered'[n] = delivered[n]
             /\ isSubscribed[n] /\ ~isSubscribed'[n] =>
                   /\ \A m \in Names \ {n} : isSubscribed'[m] = isSubscribed[m]
                   /\ UNCHANGED <<inv, promiseState, delivered>>
       /\ \A i \in 1..Len(inv') :
             LET n == inv'[i].name
             IN  /\ ~isSubscribed[n] =>
                       /\ Events(inv'[i].trace) = Events(TraceBefore(i))
                       /\ i > Len(inv) =>
                             /\ inv'[i].pc = "running"
                             /\ inv'[i].trace = <<"called">>
                       /\ Settles(i) =>
                             /\ inv'[i].res.kind # "none"
                             /\ inv'[i].out = inv'[i].res
                 /\ isSubscribed[n] /\ (i > Len(inv) \/ Settles(i)) =>
                       Len(Events(inv'[i].trace)) > Len(Events(TraceBefore(i)))
      ]_vars

\* a wrapper was unsubscribed with an invocation in flight, which has returned
\* the underlying result with no terminal event; an invocation of the other
\* wrapper, started afterwards, has had both its events delivered
WrapperUnsubscribeSuppressesWitness ==
    /\ Len(inv) = 2
    /\ inv[1].name # inv[2].name
    /\ ~isSubscribed[inv[1].name]
    /\ inv[1].pc = "done"
    /\ inv[1].trace = <<"pending", "called">>
    /\ inv[1].out.kind = "value"
    /\ inv[2].pc = "done"
    /\ inv[2].trace = <<"pending", "called", "resolved">>
    /\ delivered[inv[1].name] = 1

\* ------------------------------------------------- snapshots: properties
RECURSIVE EventCount(_)
\* the number of phase events the first n invocations have emitted
EventCount(n) ==
    IF n = 0 THEN 0 ELSE Len(Events(inv[n].trace)) + EventCount(n - 1)

\* C15: each phase event for a name A causes exactly one call of the
\* aggregation callback, with a new snapshot object that has an entry for
\* every name, A's counter one more ("pending") or one less ("resolved",
\* "rejected") than in the previous snapshot and the other counters as they
\* were; the snapshots handed out before, initialState included, still hold
\* what they held when they were handed out.
SnapshotPerTransition ==
    /\ Len(received) = EventCount(Len(inv))
    /\ heap[1] = [n \in Names |-> 0]
    /\ promiseState = heap[Len(heap)]
    /\ \A j \in 1..Len(received) :
          LET prev == IF j = 1 THEN heap[1] ELSE received[j - 1].seen
              cur == received[j].seen
              A == received[j].name
          IN  /\ DOMAIN cur = Names
              /\ cur[A] = prev[A] + (IF received[j].phase = "pending" THEN 1 ELSE -1)
              /\ \A m \in Names \ {A} : cur[m] = prev[m]
              /\ heap[received[j].ref] = cur
              /\ received[j].ref # 1
              /\ \A k \in 1..(j - 1) : received[k].ref # received[j].ref

\* invocations of two actions have overlapped and settled, the first to
\* settle by failing: four snapshots after initialState
SnapshotPerTransitionWitness ==
    /\ Len(received) = 4
    /\ received[1].phase = "pending"
    /\ received[2].phase = "pending"
    /\ received[2].name # received[1].name
    /\ received[3].phase = "rejected"
    /\ received[4].phase = "resolved"
    /\ \A n \in Names : promiseState[n] = 0

\* C16: while the consumer is attached (its effect has run for its last
\* render), the cached value it returns is equal under equalityFn to
\* selector(repository.state), also after a setState made between its first
\* render and its subscription and after a re-bind to another repository or
\* selector.
SelectorCacheCurrent ==
    hook.mounted /\ ~hook.pending =>
        equalityFn(hook.args.equalityFn, hook.current,
                   selector(hook.args.selector, repos[hook.args.repository].state))

\* -------------------------------------------- tracked store: properties
\* phase is among the events of invocation i
Has(trace, phase) == \E j \in 1..Len(trace) : trace[j] = phase

\* C17: for a store-bound action invoked through a tracker wrapper, when
\* "resolved" is emitted the setState call of the invocation has been made
\* with its result, has notified every listener and has returned, and
\* repository.state is that result or one set later; an invocation that has
\* emitted "rejected" has made no setState call.
StateSetBeforeResolved ==
    /\ [](\A i \in 1..Len(inv) :
             inv[i].tracked /\ inv[i].bound =>
                /\ Has(inv[i].trace, "resolved") =>
                      /\ CallsBy(i) # {}
                      /\ \A c \in CallsBy(i) :
                            /\ calls[c].returned
                            /\ calls[c].new = inv[i].raw.val
                            /\ Len(Entries(c)) = Len(calls[c].snap)
                /\ Has(inv[i].trace, "rejected") => CallsBy(i) = {})
    /\ [][\A i \in 1..Len(inv) :
             inv[i].tracked /\ inv[i].bound
               /\ Has(inv'[i].trace, "resolved") /\ ~Has(inv[i].trace, "resolved") =>
                /\ delivered'[inv[i].name] = delivered[inv[i].name] - 1
                /\ Idle
                /\ \E c \in CallsBy(i) :
                      \E c2 \in c..Len(calls) : state = calls[c2].new]_vars

\* an invocation has resolved after its setState had notified two listeners
\* and a later invocation had replaced its result; another has been rejected
StateSetBeforeResolvedWitness ==
    /\ Len(inv) = 2
    /\ Len(regs) = 2
    /\ \E i, j \in 1..2 :
          /\ i # j
          /\ inv[i].tracked /\ inv[i].bound
          /\ Has(inv[i].trace, "resolved")
          /\ Has(inv[j].trace, "rejected")
          /\ \E c \in CallsBy(i) : Len(calls[c].snap) = 2 /\ calls[c].new # calls[c].old

\* ------------------------------------------------ counter store: properties
AllSettled == Idle /\ \A i \in 1..Len(inv) : inv[i].pc = "done"

\* C18 as stated: every setState of a counter action advances the version of
\* the state it replaces by exactly 1, and once n invocations have all
\* settled the version is n.
CounterNoLostUpdate ==
    /\ \A c \in 1..Len(calls) : calls[c].new.version = calls[c].old.version + 1
    /\ AllSettled => state.version = Len(inv)

\* C18 as amended: every invocation sets the state its action computes from
\* the state it has read, with the version one more than in that state;
\* increment reads the state it replaces, decrement and reset the state that
\* was current when they were called. Once n invocations have all settled
\* the version is at most n, and it is n if every invocation replaced the
\* state it had read.
CounterAppliesToStateRead ==
    /\ \A c \in 1..Len(calls) :
          LET i == inv[calls[c].by]
          IN  /\ calls[c].new.version = i.read.version + 1
              /\ calls[c].new.value =
                    IF i.name = "increment" THEN i.read.value + i.count
                    ELSE IF i.name = "decrement" THEN i.read.value - i.count
                    ELSE 0
              /\ i.name = "increment" => i.read = calls[c].old
    /\ AllSettled =>
          /\ state.version <= Len(inv)
          /\ (\A c \in 1..Len(calls) : inv[calls[c].by].read = calls[c].old)
                => state.version = Len(inv)

\* two invocations have settled and the version is 1: the decrement called
\* while a reset had not yet resumed has replaced the reset's state with one
\* computed from the state before it
CounterAppliesToStateReadWitness ==
    /\ AllSettled
    /\ Len(inv) = 2
    /\ inv[1].name = "reset"
    /\ inv[2].name = "decrement"
    /\ state = [value |-> -2, version |-> 1]
    /\ Len(log) = 2

\* ---------------------------------------- re-entrant setState: properties
\* the setState calls whose notification the k-th registration has received,
\* in the order it received them
CallsSeen(k) ==
    LET es == SelectSeq(log, LAMBDA e : e.id = k)
    IN  [j \in 1..Len(es) |-> es[j].call]

\* C19: also when listeners call setState from inside a notification, every
\* listener is notified in the order in which the values were assigned (two
\* notifications received in the other order carry the same arguments), and
\* once the outermost setState has returned the newState of the last
\* notification a listener received is repository.state.
ReentrantOrderPreserved ==
    \A k \in 1..Len(regs) :
        LET seen == CallsSeen(k)
        IN  /\ \A j \in 1..(Len(seen) - 1) :
                   seen[j] > seen[j + 1] => Observed(k)[j] = Observed(k)[j + 1]
            /\ Idle /\ seen # <<>>
                 /\ (\E j \in 1..Len(calls[Len(calls)].snap) :
                        calls[Len(calls)].snap[j].id = k)
                 => calls[seen[Len(seen)]].new = state

\* ------------------------------------------------ useDispatcher: properties
\* the unsettled invocations of action n made through the wrappers of tracker t
Unsettled(t, n) ==
    {i \in 1..Len(dispatched) :
        /\ dispatched[i].tracker = t
        /\ dispatched[i].name = n
        /\ dispatched[i].pc = "running"}

\* C20: what useDispatcher returns as ActionsState is the snapshot of the
\* tracker whose wrapped actions it returns: events of invocations in flight
\* on an earlier tracker's wrappers do not replace it, and every counter is
\* the number of unsettled invocations made through the current wrappers.
DispatcherStateOfCurrentTracker ==
    trackers # <<>> =>
        /\ actionsState = trackers[Len(trackers)]
        /\ \A n \in Names :
              actionsState[n] = Cardinality(Unsettled(Len(trackers), n))

====
